---- MODULE Spec2Model ----
(***************************************************************************)
(* Model of the Job resource controller of the rigging package:            *)
(*   src/job.go           JobControl.Delete / Upsert / Status (current)    *)
(*   src/unnamed/part_000 JobControl.Delete / Upsert / Status (variant     *)
(*                        without the deletion wait; actions suffixed 0)   *)
(*   src/utils.go         CollectPods, retry, ConvertError                 *)
(* The cluster API (jobs.Get/Create/Delete, pods.List/Delete) is the       *)
(* environment: every call may answer truthfully or with any error.        *)
(***************************************************************************)
EXTENDS Integers, Sequences, FiniteSets, TLC

\* ------------------------------------------------------------------ bounds
MaxPods == 2        \* pods present in the namespace at the start
MaxUid == 2         \* UIDs the API server hands out (u1 .. uMaxUid)
MaxPoll == 2        \* attempts of the deletion wait
MaxBackoff == 2     \* attempts of the create backoff
MaxTimes == 3       \* largest `times` handed to retry

VARIABLES
    pc,          \* position of the controller inside the running operation
    op,          \* operation invoked by the caller: "", "Upsert", "Delete", "Status"
    impl,        \* "job.go" or "part_000": which source file's method runs
    nested,      \* TRUE while Delete runs as control.Delete inside Upsert (job.go:101)
    cascade,     \* Delete's cascade argument
    cjob,        \* c.Job, the caller's descriptor
    given,       \* c.Job as it was when the running invocation began
    ctxDone,     \* ctx.Done() of the running invocation is closed
    currentJob,  \* currentJob of the running method (NoJob = nil)
    upsertJob,   \* currentJob of Upsert, kept while the nested Delete runs
    currentPods, \* currentPods: map node name -> pod, as a set of entries
    todo,        \* node names not yet visited by the pod deletion loop
    attempt,     \* calls made so far by the running wait / backoff
    result,      \* error returned by the finished operation (Nil = nil)
    log,         \* remote calls issued by the running invocation, in order
    createArgs,  \* objects passed to jobs.Create by the running invocation
    killed,      \* pods removed from the cluster by the running invocation
    fetched,     \* job state read by Status
    rjob,        \* the cluster: the job stored under c.Job.Name
    rpods,       \* the cluster: pods of the namespace
    nextUid,     \* the cluster: index of the next UID to assign
    rpc,         \* retry: "idle", "fn", "wait", "done"
    times,       \* retry: parameter times
    iter,        \* retry: loop variable i
    err,         \* retry: local err
    ret,         \* retry: returned value
    script,      \* retry: what fn returns on its 1st, 2nd, ... call
    cancelled,   \* retry: ctx.Done() is closed
    period,      \* retry: parameter period (0 or a positive duration)
    timerFired,  \* retry: time.After(period) has fired for the current wait
    convIn,      \* ConvertErrorWithContext: argument err
    convFmt,     \* ConvertErrorWithContext: argument format
    convOut,     \* ConvertErrorWithContext: returned value
    convDone,    \* ConvertErrorWithContext: has returned
    crPods,      \* checkRunningAndReady: argument pods, node name -> pod or "absent"
    crNodes,     \* checkRunningAndReady: argument nodes, the node names in order
    crOut,       \* checkRunningAndReady: returned (ready, err)
    crRunning,   \* checkRunning: returned error
    crDone,      \* checkRunning: has returned
    pctl,        \* two controllers: per controller, position and locals of its method
    pjobs,       \* two controllers: the cluster's job under each controller's job name
    ppods,       \* two controllers: pods of the shared namespace
    puidOf,      \* two controllers: the job name each UID was assigned to
    pnextUid,    \* two controllers: index of the next UID to assign
    retryAttempts, \* PollStatus: parameter retryAttempts
    retryPeriod  \* PollStatus: parameter retryPeriod

vars == <<pc, op, impl, nested, cascade, cjob, given, ctxDone, currentJob, upsertJob, currentPods,
          todo, attempt, result, log, createArgs, killed, fetched, rjob, rpods,
          nextUid, rpc, times, iter, err, ret, script, cancelled, period, timerFired,
          convIn, convFmt, convOut, convDone, crPods, crNodes, crOut, crRunning, crDone,
          pctl, pjobs, ppods, puidOf, pnextUid, retryAttempts, retryPeriod>>

ctlVars == <<pc, op, impl, nested, cascade, cjob, given, ctxDone, currentJob, upsertJob, currentPods,
             todo, attempt, result, log, createArgs, killed, fetched, rjob, rpods,
             nextUid>>

retryVars == <<rpc, times, iter, err, ret, script, cancelled, period, timerFired>>

convVars == <<convIn, convFmt, convOut, convDone>>

checkVars == <<crPods, crNodes, crOut, crRunning, crDone>>

pairVars == <<pctl, pjobs, ppods, puidOf, pnextUid>>

pollVars == <<retryAttempts, retryPeriod>>

\* ------------------------------------------------------------------ errors
\* An error value. kind: "nil" | "status" (*errors.StatusError) | "plain" (any
\* other error) | the kind of a trace error. code and reason are the status the
\* error text shows, details the StatusDetails ("nil", "empty": all fields
\* empty, "full"), ctx the formatted context put in front of the message.
MkErr(k, c, r) ==
    [kind |-> k, code |-> c, reason |-> r, details |-> "nil", ctx |-> "",
     wrapped |-> FALSE]

Nil == MkErr("nil", 0, "")

E404 == MkErr("status", 404, "NotFound")

E409 == MkErr("status", 409, "AlreadyExists")

StatusErrs ==
    { E404, E409,
      MkErr("status", 403, "Forbidden"),
      MkErr("status", 409, "Conflict"),
      MkErr("status", 500, "InternalError") }

PlainErrs == { MkErr("plain", 0, "io") }

\* the errors a call of the cluster API may answer with
Errs == StatusErrs \cup PlainErrs

\* trace.Wrap: nil stays nil, anything else is wrapped with a stack trace;
\* the kind stays visible through the wrapper.
Wrap(e) == IF e = Nil THEN Nil ELSE [e EXCEPT !.wrapped = TRUE]

isEmptyDetails(d) == d = "nil" \/ d = "empty"

\* trace.NotFound(message) and the like: a new trace error of kind k whose
\* message is the error text, the details when not empty, and the context.
TraceErr(k, e, format) ==
    [kind |-> k, code |-> e.code, reason |-> e.reason,
     details |-> IF isEmptyDetails(e.details) THEN "nil" ELSE e.details,
     ctx |-> format, wrapped |-> TRUE]

ConvertErrorWithContext_409Any(e, format) ==
    IF e = Nil THEN Nil
    ELSE IF e.kind # "status" THEN e
    ELSE IF e.code = 409 THEN TraceErr("AlreadyExists", e, format)
    ELSE IF e.code = 404 THEN TraceErr("NotFound", e, format)
    ELSE IF e.code = 403 THEN TraceErr("AccessDenied", e, format)
    ELSE e

ConvertErrorWithContext_No404(e, format) ==
    IF e = Nil THEN Nil
    ELSE IF e.kind # "status" THEN e
    ELSE IF e.code = 409 /\ e.reason = "AlreadyExists"
         THEN TraceErr("AlreadyExists", e, format)
    ELSE IF e.code = 403 THEN TraceErr("AccessDenied", e, format)
    ELSE e

ConvertErrorWithContext(e, format) ==
    IF e = Nil THEN Nil
    ELSE IF e.kind # "status" THEN e
    ELSE IF e.code = 409 /\ e.reason = "AlreadyExists"
         THEN TraceErr("AlreadyExists", e, format)
    ELSE IF e.code = 404 THEN TraceErr("NotFound", e, format)
    ELSE IF e.code = 403 THEN TraceErr("AccessDenied", e, format)
    ELSE e

ConvertError(e) == ConvertErrorWithContext(e, "")

IsNotFound(e) == e.kind = "NotFound"

\* ------------------------------------------------------------ data model
Nodes == {"n1", "n2", ""}

KindJob == "Job"

\* UIDs are numbered: n stands for the UID string "u<n>", 0 for the empty string.
NoJob == [uid |-> 0, deleting |-> FALSE, hasSelector |-> FALSE]

\* The created-by annotation of a pod: absent, malformed, or a serialized
\* reference {kind, uid}.
Ann(p, w, k, u) == [present |-> p, wellformed |-> w, kind |-> k, uid |-> u]

Pod(nm, nd, l, a) == [name |-> nm, node |-> nd, lbl |-> l, ann |-> a]

\* Pods the namespace may hold; lbl says whether the pod's labels satisfy the
\* match labels of the job's selector.
PodUniverse ==
    { Pod("pa", "n1", TRUE, Ann(TRUE, TRUE, "Job", 1)),
      Pod("pb", "n2", TRUE, Ann(TRUE, TRUE, "Job", 1)),
      Pod("pc", "n1", TRUE, Ann(TRUE, TRUE, "Job", 1)),
      Pod("pd", "n2", TRUE, Ann(TRUE, TRUE, "Job", 2)),
      Pod("pe", "n1", TRUE, Ann(FALSE, FALSE, "", 0)),
      Pod("pf", "n2", TRUE, Ann(TRUE, FALSE, "", 0)),
      Pod("pg", "", TRUE, Ann(TRUE, TRUE, "ReplicaSet", 1)),
      Pod("ph", "n1", FALSE, Ann(TRUE, TRUE, "Job", 1)) }

\* c.Job as the caller may hand it in: identity fields possibly left over from
\* an earlier fetch, selector nil / without / with the controller-uid label.
Descriptors ==
    [ uid : {0, 1},
      selfLink : {"", "/apis/batch/v1/jobs/j"},
      resourceVersion : {"", "42"},
      selector : {"nil", "plain", "auto"},
      tplAuto : BOOLEAN ]

PlainDescriptor ==
    [uid |-> 0, selfLink |-> "", resourceVersion |-> "", selector |-> "plain",
     tplAuto |-> FALSE]

MaxCount == 2       \* largest succeeded / completions value read by Status

\* job.Status.Succeeded, job.Status.Active, job.Spec.Completions (nil or a number)
JobStates ==
    [ succeeded : 0..MaxCount, active : 0..1, hasCompletions : {FALSE}, completions : {0} ]
        \cup [ succeeded : 0..MaxCount, active : 0..1, hasCompletions : {TRUE},
               completions : 0..MaxCount ]

NoState == [succeeded |-> 0, active |-> 0, hasCompletions |-> FALSE, completions |-> 0]

\* ----------------------------------------------------------- CollectPods
\* ParseSerializedReference on the annotation value.
ParseSerializedReference(a) ==
    [err |-> ~a.wellformed, ref |-> [kind |-> a.kind, uid |-> a.uid]]

\* The closure handed to CollectPods by collectPods.
OwnerMatch_LabelOnly(ref, job) == TRUE

OwnerMatch_KindOnly(ref, job) == ref.kind = KindJob

OwnerMatch(ref, job) == ref.kind = KindJob /\ ref.uid = job.uid

\* pods[pod.Spec.NodeName] = pod
Put(m, p) == {e \in m : e.node # p.node} \cup {[node |-> p.node, pod |-> p]}

\* a loop that gives up at the first annotation that does not deserialize
RECURSIVE CollectLoop_StopOnMalformed(_, _, _)
CollectLoop_StopOnMalformed(items, job, pods) ==
    IF items = <<>> THEN pods
    ELSE LET pod == Head(items)
             parsed == ParseSerializedReference(pod.ann)
         IN  IF ~pod.ann.present THEN CollectLoop_StopOnMalformed(Tail(items), job, pods)
             ELSE IF parsed.err THEN pods
             ELSE IF OwnerMatch(parsed.ref, job)
                  THEN CollectLoop_StopOnMalformed(Tail(items), job, Put(pods, pod))
                  ELSE CollectLoop_StopOnMalformed(Tail(items), job, pods)

RECURSIVE CollectLoop(_, _, _)
CollectLoop(items, job, pods) ==
    IF items = <<>> THEN pods
    ELSE LET pod == Head(items)
             parsed == ParseSerializedReference(pod.ann)
         IN  IF ~pod.ann.present THEN CollectLoop(Tail(items), job, pods)
             ELSE IF parsed.err THEN CollectLoop(Tail(items), job, pods)
             ELSE IF OwnerMatch(parsed.ref, job)
                  THEN CollectLoop(Tail(items), job, Put(pods, pod))
                  ELSE CollectLoop(Tail(items), job, pods)

CollectPods(items, job) == CollectLoop(items, job, {})

\* ------------------------------------------------------- the cluster API
\* pods matched by the label selector built from the job's match labels; a nil
\* selector gives the empty selector, which matches every pod.
Listed(job) == {p \in rpods : ~job.hasSelector \/ p.lbl}

\* every order in which the List call may return a set of pods
Orders(S) == {s \in [1..Cardinality(S) -> S] : {s[i] : i \in 1..Cardinality(S)} = S}

\* answers of jobs.Get(c.Job.Name)
GetResp ==
    (IF rjob.uid # 0 THEN {[err |-> Nil, job |-> rjob]} ELSE {})
        \cup {[err |-> e, job |-> NoJob] : e \in Errs}

\* how the cluster answered a call: "ok", "404" (a status error with code 404)
\* or "error" (any other error)
Answer(e) ==
    IF e = Nil THEN "ok"
    ELSE IF e.kind = "status" /\ e.code = 404 THEN "404"
    ELSE "error"

\* the invocation's record of a remote call: the call, the pod it names (pod
\* deletes), and how the cluster answered
Logged(call, arg, e) ==
    log' = Append(log, [call |-> call, arg |-> arg, res |-> Answer(e)])

\* ------------------------------------------------------------ the caller
Ops == {"Upsert", "Delete", "Status"}

Impls == {"job.go", "part_000"}

Entry(o, i) ==
    IF o = "Status" THEN "S_get"
    ELSE IF o = "Delete" THEN (IF i = "job.go" THEN "D_get" ELSE "D0_get")
    ELSE (IF i = "job.go" THEN "U_get" ELSE "U0_get")

\* A caller invokes one public method on the controller.
Invoke ==
    /\ pc = "idle"
    /\ \E o \in Ops, i \in Impls, c \in BOOLEAN :
          /\ o = "Status" => i = "job.go"
          /\ o # "Delete" => c = TRUE
          /\ op' = o
          /\ impl' = i
          /\ cascade' = c
          /\ pc' = Entry(o, i)
    /\ nested' = FALSE
    /\ currentJob' = NoJob
    /\ upsertJob' = NoJob
    /\ currentPods' = {}
    /\ todo' = {}
    /\ attempt' = 0
    /\ result' = Nil
    /\ log' = <<>>
    /\ createArgs' = {}
    /\ killed' = {}
    /\ fetched' = NoState
    /\ given' = cjob
    /\ ctxDone' = FALSE
    /\ UNCHANGED <<cjob, rjob, rpods, nextUid>>
    /\ UNCHANGED <<retryVars, convVars, checkVars, pairVars, pollVars>>

\* The running method returns e to the caller.
Finish(e) ==
    /\ pc' = "idle"
    /\ result' = e
    /\ nested' = FALSE

\* ------------------------------------------------- JobControl.Delete (job.go)
\* Delete returns e: to the caller, or to Upsert when called as control.Delete
\* (job.go:101-104), which returns ConvertError(e) or goes on to the create.
\* if !cascade { c.Info("cascade not set, returning") }: the branch logs and
\* falls through; pods is what reaches the pod deletion after it.
CascadeBranch_Gated(c, pods) == IF c THEN pods ELSE {}

CascadeBranch(c, pods) == pods

DeleteReturn_IgnoreErr(e) ==
    /\ nested' = FALSE
    /\ IF nested
       THEN pc' = "U_strip" /\ result' = result
       ELSE pc' = "idle" /\ result' = e

DeleteReturn(e) ==
    /\ nested' = FALSE
    /\ IF nested /\ e = Nil
       THEN pc' = "U_strip" /\ result' = result
       ELSE pc' = "idle" /\ result' = (IF nested THEN ConvertError(e) ELSE e)

\* currentJob, err := jobs.Get(c.Job.Name, ...)
DeleteGet ==
    /\ pc = "D_get"
    /\ \E r \in GetResp :
          /\ Logged("get", "", r.err)
          /\ IF r.err # Nil
             THEN DeleteReturn(ConvertError(r.err)) /\ currentJob' = currentJob
             ELSE /\ currentJob' = r.job
                  /\ pc' = "D_list"
                  /\ UNCHANGED <<result, nested>>
    /\ UNCHANGED <<op, impl, cascade, cjob, upsertJob, currentPods, todo, attempt,
                   createArgs, killed, fetched, rjob, rpods, nextUid>>
    /\ UNCHANGED <<given, ctxDone, retryVars, convVars, checkVars, pairVars, pollVars>>

\* currentPods, err := c.collectPods(currentJob)
DeleteCollect ==
    /\ pc = "D_list"
    /\ \/ \E e \in Errs :
             /\ Logged("list", "", e)
             /\ DeleteReturn(Wrap(ConvertError(ConvertError(e))))
             /\ currentPods' = currentPods
       \/ \E items \in Orders(Listed(currentJob)) :
             /\ Logged("list", "", Nil)
             /\ currentPods' = CollectPods(items, currentJob)
             /\ pc' = "D_delete"
             /\ UNCHANGED <<result, nested>>
    /\ UNCHANGED <<op, impl, cascade, cjob, currentJob, upsertJob, todo, attempt,
                   createArgs, killed, fetched, rjob, rpods, nextUid>>
    /\ UNCHANGED <<given, ctxDone, retryVars, convVars, checkVars, pairVars, pollVars>>

\* err = jobs.Delete(c.Job.Name, {PropagationPolicy: Foreground}): the job stays
\* resolvable, marked as being deleted, until the cluster finalizes it.
DeleteJob ==
    /\ pc = "D_delete"
    /\ \/ \E e \in Errs :
             /\ Logged("jobDelete", "", e)
             /\ DeleteReturn(ConvertError(e))
             /\ UNCHANGED <<rjob, attempt>>
       \/ /\ rjob.uid # 0
          /\ Logged("jobDelete", "", Nil)
          /\ rjob' = [rjob EXCEPT !.deleting = TRUE]
          /\ attempt' = 0
          /\ pc' = "D_wait"
          /\ UNCHANGED <<result, nested>>
    /\ UNCHANGED <<op, impl, cascade, cjob, currentJob, upsertJob, currentPods, todo,
                   createArgs, killed, fetched, rpods, nextUid>>
    /\ UNCHANGED <<given, ctxDone, retryVars, convVars, checkVars, pairVars, pollVars>>

\* The error the deletion wait gives up with while the object still resolves.
ErrStillExists == MkErr("plain", 0, "object is not deleted yet")

\* waitForObjectDeletion: what the wait does after a poll that returned e, the
\* n-th poll of the wait.
waitForObjectDeletion(e, n) ==
    IF IsNotFound(e) THEN "deleted"
    ELSE IF e # Nil THEN "abort"
    ELSE IF n < MaxPoll THEN "again"
    ELSE "exhausted"

\* err = waitForObjectDeletion(func() error { _, err := jobs.Get(...); return ConvertError(err) })
DeleteWait ==
    /\ pc = "D_wait"
    /\ \E r \in GetResp :
          /\ Logged("get", "", r.err)
          /\ LET e == ConvertError(r.err)
                 w == waitForObjectDeletion(e, attempt + 1)
             IN  CASE w = "deleted" ->
                        /\ pc' = "D_pods"
                        /\ todo' = CascadeBranch(cascade, currentPods)
                        /\ UNCHANGED <<result, nested, attempt>>
                   [] w = "abort" ->
                        /\ DeleteReturn(Wrap(e))
                        /\ UNCHANGED <<todo, attempt>>
                   [] w = "again" ->
                        /\ attempt' = attempt + 1
                        /\ UNCHANGED <<pc, result, nested, todo>>
                   [] OTHER ->
                        /\ DeleteReturn(Wrap(ErrStillExists))
                        /\ UNCHANGED <<todo, attempt>>
    /\ UNCHANGED <<op, impl, cascade, cjob, currentJob, upsertJob, currentPods,
                   createArgs, killed, fetched, rjob, rpods, nextUid>>
    /\ UNCHANGED <<given, ctxDone, retryVars, convVars, checkVars, pairVars, pollVars>>

\* pods.Delete(pod.Name, nil) on the cluster: removes the pod of that name.
PodDeleteOk(name) ==
    /\ \E p \in rpods : p.name = name
    /\ rpods' = {p \in rpods : p.name # name}
    /\ killed' = killed \cup {p \in rpods : p.name = name}

\* deletePods(pods, currentPods, entry): one iteration of its loop over the map.
DeletePods ==
    /\ pc = "D_pods"
    /\ \E ent \in todo :
          /\ \/ \E e \in Errs :
                   /\ Logged("podDelete", ent.pod.name, e)
                   /\ DeleteReturn(Wrap(ConvertError(e)))
                   /\ UNCHANGED <<rpods, killed, todo>>
             \/ /\ PodDeleteOk(ent.pod.name)
                /\ Logged("podDelete", ent.pod.name, Nil)
                /\ todo' = todo \ {ent}
                /\ UNCHANGED <<pc, result, nested>>
    /\ UNCHANGED <<op, impl, cascade, cjob, currentJob, upsertJob, currentPods, attempt,
                   createArgs, fetched, rjob, nextUid>>
    /\ UNCHANGED <<given, ctxDone, retryVars, convVars, checkVars, pairVars, pollVars>>

\* return trace.Wrap(err) once every collected pod was deleted
DeleteDone ==
    /\ pc = "D_pods"
    /\ todo = {}
    /\ DeleteReturn(Wrap(Nil))
    /\ UNCHANGED <<op, impl, cascade, cjob, currentJob, upsertJob, currentPods, todo,
                   attempt, log, createArgs, killed, fetched, rjob, rpods, nextUid>>
    /\ UNCHANGED <<given, ctxDone, retryVars, convVars, checkVars, pairVars, pollVars>>

\* ------------------------------------------------- JobControl.Upsert (job.go)
\* currentJob, err := jobs.Get(...); NotFound means nothing to replace;
\* otherwise control.Delete(ctx, true) on a controller bound to currentJob.
UpsertGet ==
    /\ pc = "U_get"
    /\ \E r \in GetResp :
          /\ Logged("get", "", r.err)
          /\ LET e == ConvertError(r.err)
             IN  IF e # Nil /\ ~IsNotFound(e)
                 THEN Finish(Wrap(e)) /\ UNCHANGED <<upsertJob, cascade>>
                 ELSE IF e # Nil
                 THEN /\ upsertJob' = NoJob
                      /\ pc' = "U_strip"
                      /\ UNCHANGED <<result, nested, cascade>>
                 ELSE /\ upsertJob' = r.job
                      /\ pc' = "D_get"
                      /\ nested' = TRUE
                      /\ cascade' = TRUE
                      /\ result' = result
    /\ UNCHANGED <<op, impl, cjob, currentJob, currentPods, todo, attempt,
                   createArgs, killed, fetched, rjob, rpods, nextUid>>
    /\ UNCHANGED <<given, ctxDone, retryVars, convVars, checkVars, pairVars, pollVars>>

\* c.Job.UID = ""; SelfLink = ""; ResourceVersion = ""; with a selector, the
\* controller-uid label is deleted from the selector and the template labels.
Strip_KeepUID(j) == [j EXCEPT !.selfLink = "", !.resourceVersion = ""]

Strip(j) ==
    [j EXCEPT !.uid = 0, !.selfLink = "", !.resourceVersion = "",
              !.selector = IF @ = "nil" THEN "nil" ELSE "plain",
              !.tplAuto = IF j.selector = "nil" THEN @ ELSE FALSE]

UpsertStrip ==
    /\ pc = "U_strip"
    /\ cjob' = Strip(cjob)
    /\ attempt' = 0
    /\ pc' = "U_create"
    /\ UNCHANGED <<op, impl, nested, cascade, currentJob, upsertJob, currentPods, todo,
                   result, log, createArgs, killed, fetched, rjob, rpods, nextUid>>
    /\ UNCHANGED <<given, ctxDone, retryVars, convVars, checkVars, pairVars, pollVars>>

\* jobs.Create(obj) on the cluster: a job of that name must not exist (a job
\* being deleted still does).
CreateOk(obj) ==
    /\ rjob.uid = 0
    /\ nextUid <= MaxUid
    /\ rjob' = [uid |-> nextUid, deleting |-> FALSE, hasSelector |-> obj.selector # "nil"]
    /\ nextUid' = nextUid + 1

\* withExponentialBackoff: whether a create that failed as the n-th attempt is
\* tried again.
withExponentialBackoff(n) == n < MaxBackoff

\* err = withExponentialBackoff(func() error { _, err := jobs.Create(c.Job); ... })
UpsertCreate ==
    /\ pc = "U_create"
    /\ createArgs' = createArgs \cup {cjob}
    /\ \/ /\ CreateOk(cjob)
          /\ Logged("create", "", Nil)
          /\ Finish(Wrap(Nil))
          /\ attempt' = attempt
       \/ \E e \in Errs :
             /\ Logged("create", "", e)
             /\ UNCHANGED <<rjob, nextUid>>
             /\ IF withExponentialBackoff(attempt + 1)
                THEN attempt' = attempt + 1 /\ UNCHANGED <<pc, result, nested>>
                ELSE Finish(Wrap(ConvertError(e))) /\ attempt' = attempt
    /\ UNCHANGED <<op, impl, cascade, cjob, currentJob, upsertJob, currentPods, todo,
                   killed, fetched, rpods>>
    /\ UNCHANGED <<given, ctxDone, retryVars, convVars, checkVars, pairVars, pollVars>>

\* ------------------------------------------------------- JobControl.Status
Complete_ActiveToo(f) ==
    IF ~f.hasCompletions
    THEN f.succeeded > 0 /\ f.active = 0
    ELSE f.succeeded >= f.completions /\ f.active = 0

Complete(f) ==
    IF ~f.hasCompletions
    THEN f.succeeded > 0 /\ f.active = 0
    ELSE f.succeeded >= f.completions

\* trace.CompareFailed("job %v not yet complete ...")
CompareFailed == [MkErr("CompareFailed", 0, "") EXCEPT !.wrapped = TRUE]

Status ==
    /\ pc = "S_get"
    /\ \/ \E e \in Errs :
             /\ Logged("get", "", e)
             /\ Finish(ConvertError(e))
             /\ fetched' = NoState
       \/ /\ rjob.uid # 0
          /\ Logged("get", "", Nil)
          /\ \E f \in JobStates :
                /\ fetched' = f
                /\ Finish(IF Complete(f) THEN Nil ELSE CompareFailed)
    /\ UNCHANGED <<op, impl, cascade, cjob, currentJob, upsertJob, currentPods, todo,
                   attempt, createArgs, killed, rjob, rpods, nextUid>>
    /\ UNCHANGED <<given, ctxDone, retryVars, convVars, checkVars, pairVars, pollVars>>

\* --------------------------------------------- JobControl.Delete (part_000)
Delete0Get ==
    /\ pc = "D0_get"
    /\ \E r \in GetResp :
          /\ Logged("get", "", r.err)
          /\ IF r.err # Nil
             THEN Finish(ConvertError(r.err)) /\ currentJob' = currentJob
             ELSE /\ currentJob' = r.job
                  /\ pc' = "D0_list"
                  /\ UNCHANGED <<result, nested>>
    /\ UNCHANGED <<op, impl, cascade, cjob, upsertJob, currentPods, todo, attempt,
                   createArgs, killed, fetched, rjob, rpods, nextUid>>
    /\ UNCHANGED <<given, ctxDone, retryVars, convVars, checkVars, pairVars, pollVars>>

Delete0Collect ==
    /\ pc = "D0_list"
    /\ \/ \E e \in Errs :
             /\ Logged("list", "", e)
             /\ Finish(Wrap(ConvertError(ConvertError(e))))
             /\ currentPods' = currentPods
       \/ \E items \in Orders(Listed(currentJob)) :
             /\ Logged("list", "", Nil)
             /\ currentPods' = CollectPods(items, currentJob)
             /\ pc' = "D0_delete"
             /\ UNCHANGED <<result, nested>>
    /\ UNCHANGED <<op, impl, cascade, cjob, currentJob, upsertJob, todo, attempt,
                   createArgs, killed, fetched, rjob, rpods, nextUid>>
    /\ UNCHANGED <<given, ctxDone, retryVars, convVars, checkVars, pairVars, pollVars>>

\* err = jobs.Delete(c.Job.Name, nil): no propagation policy, the job is gone
\* when the call returns; the pod loop follows at once.
Delete0Job ==
    /\ pc = "D0_delete"
    /\ \/ \E e \in Errs :
             /\ Logged("jobDelete", "", e)
             /\ Finish(ConvertError(e))
             /\ UNCHANGED <<rjob, todo>>
       \/ /\ rjob.uid # 0
          /\ Logged("jobDelete", "", Nil)
          /\ rjob' = NoJob
          /\ todo' = CascadeBranch(cascade, currentPods)
          /\ pc' = "D0_pods"
          /\ UNCHANGED <<result, nested>>
    /\ UNCHANGED <<op, impl, cascade, cjob, currentJob, upsertJob, currentPods, attempt,
                   createArgs, killed, fetched, rpods, nextUid>>
    /\ UNCHANGED <<given, ctxDone, retryVars, convVars, checkVars, pairVars, pollVars>>

Delete0Pods ==
    /\ pc = "D0_pods"
    /\ \E ent \in todo :
          /\ \/ \E e \in Errs :
                   /\ Logged("podDelete", ent.pod.name, e)
                   /\ Finish(ConvertError(e))
                   /\ UNCHANGED <<rpods, killed, todo>>
             \/ /\ PodDeleteOk(ent.pod.name)
                /\ Logged("podDelete", ent.pod.name, Nil)
                /\ todo' = todo \ {ent}
                /\ UNCHANGED <<pc, result, nested>>
    /\ UNCHANGED <<op, impl, cascade, cjob, currentJob, upsertJob, currentPods, attempt,
                   createArgs, fetched, rjob, nextUid>>
    /\ UNCHANGED <<given, ctxDone, retryVars, convVars, checkVars, pairVars, pollVars>>

Delete0Done ==
    /\ pc = "D0_pods"
    /\ todo = {}
    /\ Finish(Nil)
    /\ UNCHANGED <<op, impl, cascade, cjob, currentJob, upsertJob, currentPods, todo,
                   attempt, log, createArgs, killed, fetched, rjob, rpods, nextUid>>
    /\ UNCHANGED <<given, ctxDone, retryVars, convVars, checkVars, pairVars, pollVars>>

\* --------------------------------------------- JobControl.Upsert (part_000)
Upsert0Get ==
    /\ pc = "U0_get"
    /\ \E r \in GetResp :
          /\ Logged("get", "", r.err)
          /\ LET e == ConvertError(r.err)
             IN  IF e # Nil /\ ~IsNotFound(e)
                 THEN Finish(Wrap(e)) /\ currentJob' = currentJob
                 ELSE IF e # Nil
                 THEN /\ currentJob' = NoJob
                      /\ pc' = "U0_create"
                      /\ UNCHANGED <<result, nested>>
                 ELSE /\ currentJob' = r.job
                      /\ pc' = "U0_list"
                      /\ UNCHANGED <<result, nested>>
    /\ UNCHANGED <<op, impl, cascade, cjob, upsertJob, currentPods, todo, attempt,
                   createArgs, killed, fetched, rjob, rpods, nextUid>>
    /\ UNCHANGED <<given, ctxDone, retryVars, convVars, checkVars, pairVars, pollVars>>

Upsert0Collect ==
    /\ pc = "U0_list"
    /\ \/ \E e \in Errs :
             /\ Logged("list", "", e)
             /\ Finish(Wrap(ConvertError(ConvertError(e))))
             /\ currentPods' = currentPods
       \/ \E items \in Orders(Listed(currentJob)) :
             /\ Logged("list", "", Nil)
             /\ currentPods' = CollectPods(items, currentJob)
             /\ pc' = "U0_delete"
             /\ UNCHANGED <<result, nested>>
    /\ UNCHANGED <<op, impl, cascade, cjob, currentJob, upsertJob, todo, attempt,
                   createArgs, killed, fetched, rjob, rpods, nextUid>>
    /\ UNCHANGED <<given, ctxDone, retryVars, convVars, checkVars, pairVars, pollVars>>

Upsert0Delete ==
    /\ pc = "U0_delete"
    /\ \/ \E e \in Errs :
             /\ Logged("jobDelete", "", e)
             /\ Finish(ConvertError(e))
             /\ rjob' = rjob
       \/ /\ rjob.uid # 0
          /\ Logged("jobDelete", "", Nil)
          /\ rjob' = NoJob
          /\ pc' = "U0_create"
          /\ UNCHANGED <<result, nested>>
    /\ UNCHANGED <<op, impl, cascade, cjob, currentJob, upsertJob, currentPods, todo,
                   attempt, createArgs, killed, fetched, rpods, nextUid>>
    /\ UNCHANGED <<given, ctxDone, retryVars, convVars, checkVars, pairVars, pollVars>>

\* the identity fields and labels are stripped, then one jobs.Create(c.Job)
Upsert0Create ==
    /\ pc = "U0_create"
    /\ cjob' = Strip(cjob)
    /\ createArgs' = createArgs \cup {Strip(cjob)}
    /\ \/ \E e \in Errs :
             /\ Logged("create", "", e)
             /\ Finish(ConvertError(e))
             /\ UNCHANGED <<rjob, nextUid, todo>>
       \/ /\ CreateOk(Strip(cjob))
          /\ Logged("create", "", Nil)
          /\ IF currentJob.uid # 0
             THEN pc' = "U0_pods" /\ todo' = currentPods /\ UNCHANGED <<result, nested>>
             ELSE Finish(Nil) /\ todo' = todo
    /\ UNCHANGED <<op, impl, cascade, currentJob, upsertJob, currentPods, attempt,
                   killed, fetched, rpods>>
    /\ UNCHANGED <<given, ctxDone, retryVars, convVars, checkVars, pairVars, pollVars>>

Upsert0Pods ==
    /\ pc = "U0_pods"
    /\ \E ent \in todo :
          /\ \/ \E e \in Errs :
                   /\ Logged("podDelete", ent.pod.name, e)
                   /\ Finish(ConvertError(e))
                   /\ UNCHANGED <<rpods, killed, todo>>
             \/ /\ PodDeleteOk(ent.pod.name)
                /\ Logged("podDelete", ent.pod.name, Nil)
                /\ todo' = todo \ {ent}
                /\ UNCHANGED <<pc, result, nested>>
    /\ UNCHANGED <<op, impl, cascade, cjob, currentJob, upsertJob, currentPods, attempt,
                   createArgs, fetched, rjob, nextUid>>
    /\ UNCHANGED <<given, ctxDone, retryVars, convVars, checkVars, pairVars, pollVars>>

Upsert0Done ==
    /\ pc = "U0_pods"
    /\ todo = {}
    /\ Finish(Nil)
    /\ UNCHANGED <<op, impl, cascade, cjob, currentJob, upsertJob, currentPods, todo,
                   attempt, log, createArgs, killed, fetched, rjob, rpods, nextUid>>
    /\ UNCHANGED <<given, ctxDone, retryVars, convVars, checkVars, pairVars, pollVars>>

\* ------------------------------------------------------------ the cluster
\* Foreground deletion completes: the job stops being resolvable by name.
Finalize ==
    /\ rjob.uid # 0
    /\ rjob.deleting
    /\ rjob' = NoJob
    /\ UNCHANGED <<pc, op, impl, nested, cascade, cjob, currentJob, upsertJob,
                   currentPods, todo, attempt, result, log, createArgs, killed, fetched,
                   rpods, nextUid>>
    /\ UNCHANGED <<given, ctxDone, retryVars, convVars, checkVars, pairVars, pollVars>>

\* ------------------------------------------------------------ the caller's ctx
\* The caller cancels the ctx it passed to the running Upsert or Delete, while
\* the deletion wait or the create backoff is between two attempts. No
\* statement of either method reads ctx: Upsert hands it to control.Delete
\* (job.go:101); waitForObjectDeletion and withExponentialBackoff are called
\* with the closure alone (job.go:67, 117).
CancelCtx ==
    /\ pc \in {"D_wait", "U_create"}
    /\ attempt >= 1
    /\ ~ctxDone
    /\ ctxDone' = TRUE
    /\ UNCHANGED <<pc, op, impl, nested, cascade, cjob, given, currentJob, upsertJob,
                   currentPods, todo, attempt, result, log, createArgs, killed, fetched,
                   rjob, rpods, nextUid>>
    /\ UNCHANGED <<retryVars, convVars, checkVars, pairVars, pollVars>>

\* ------------------------------------------------------------- PollStatus
\* DefaultRetryAttempts, DefaultRetryPeriod: the defaults, both positive
DefaultRetryAttempts == MaxTimes

DefaultRetryPeriod == 1

\* the defaults replace a zero retryAttempts / retryPeriod; then
\* return retry(ctx, retryAttempts, retryPeriod, reporter.Status)
PollStatus ==
    /\ rpc = "poll"
    /\ times' = (IF retryAttempts = 0 THEN DefaultRetryAttempts ELSE retryAttempts)
    /\ period' = (IF retryPeriod = 0 THEN DefaultRetryPeriod ELSE retryPeriod)
    /\ rpc' = "idle"
    /\ UNCHANGED <<iter, err, ret, script, cancelled, timerFired>>
    /\ UNCHANGED <<ctlVars, convVars, checkVars, pairVars, pollVars>>

\* ------------------------------------------------------------------ retry
\* what fn may return
FnResults == {Nil, E404, MkErr("plain", 0, "io")}

\* an entry that lets times = 0 through to the first call of fn
RetryEnter_ZeroRuns ==
    /\ rpc = "idle"
    /\ IF times < 0
       THEN rpc' = "done" /\ ret' = Nil
       ELSE rpc' = "fn" /\ ret' = ret
    /\ UNCHANGED <<times, iter, err, script, cancelled, period, timerFired>>
    /\ UNCHANGED <<ctlVars, convVars, checkVars, pairVars, pollVars>>

\* if times < 1 { return nil }; otherwise the first call of fn follows
RetryEnter ==
    /\ rpc = "idle"
    /\ IF times < 1
       THEN rpc' = "done" /\ ret' = Nil
       ELSE rpc' = "fn" /\ ret' = ret
    /\ UNCHANGED <<times, iter, err, script, cancelled, period, timerFired>>
    /\ UNCHANGED <<ctlVars, convVars, checkVars, pairVars, pollVars>>

\* the loop condition, evaluated after the i-th call of fn returned e
Continue_OneMore(i, t, e) == i <= t /\ e # Nil

Continue_IgnoreErr(i, t, e) == i < t

Continue(i, t, e) == i < t /\ e # Nil

\* err = fn(), then the loop condition: wait for the next attempt or return err
RetryFn ==
    /\ rpc = "fn"
    /\ LET e == script[iter + 1]
       IN  /\ err' = e
           /\ iter' = iter + 1
           /\ IF Continue(iter + 1, times, e)
              THEN /\ rpc' = "wait"
                   /\ ret' = ret
                   /\ timerFired' \in (IF period = 0 THEN BOOLEAN ELSE {FALSE})
              ELSE /\ rpc' = "done"
                   /\ ret' = e
                   /\ timerFired' = timerFired
    /\ UNCHANGED <<times, script, cancelled, period>>
    /\ UNCHANGED <<ctlVars, convVars, checkVars, pairVars, pollVars>>

\* the cases of the select that can proceed
SelectReady_NoCtx(done, fired) == IF fired THEN {"timer"} ELSE {}

SelectReady(done, fired) ==
    (IF done THEN {"ctx"} ELSE {}) \cup (IF fired THEN {"timer"} ELSE {})

\* select { case <-ctx.Done(): return err; case <-time.After(period): }
RetrySelect ==
    /\ rpc = "wait"
    /\ \E c \in SelectReady(cancelled, timerFired) :
          IF c = "ctx"
          THEN rpc' = "done" /\ ret' = err
          ELSE rpc' = "fn" /\ ret' = ret
    /\ UNCHANGED <<times, iter, err, script, cancelled, period, timerFired>>
    /\ UNCHANGED <<ctlVars, convVars, checkVars, pairVars, pollVars>>

\* the period elapses while the select is blocked
Tick ==
    /\ rpc = "wait"
    /\ SelectReady(cancelled, timerFired) = {}
    /\ timerFired' = TRUE
    /\ UNCHANGED <<rpc, times, iter, err, ret, script, cancelled, period>>
    /\ UNCHANGED <<ctlVars, convVars, checkVars, pairVars, pollVars>>

\* the caller cancels ctx, at any moment before retry has returned
Cancel ==
    /\ ~cancelled
    /\ rpc # "done"
    /\ cancelled' = TRUE
    /\ UNCHANGED <<rpc, times, iter, err, ret, script, period, timerFired>>
    /\ UNCHANGED <<ctlVars, convVars, checkVars, pairVars, pollVars>>

\* ------------------------------------------------ ConvertErrorWithContext
\* the error values a caller may hand to ConvertError / ConvertErrorWithContext
ErrorValues ==
    {Nil}
        \cup [ kind : {"status"}, code : {400, 403, 404, 409, 500},
               reason : {"", "AlreadyExists", "Conflict", "NotFound"},
               details : {"nil", "empty", "full"}, ctx : {""}, wrapped : {FALSE} ]
        \cup [ kind : {"plain", "NotFound", "AlreadyExists", "AccessDenied", "CompareFailed"},
               code : {0, 404, 409}, reason : {""}, details : {"nil"}, ctx : {""},
               wrapped : BOOLEAN ]

Formats == {"", "job %v"}

\* one call ConvertErrorWithContext(err, format)
Convert ==
    /\ ~convDone
    /\ convOut' = ConvertErrorWithContext(convIn, convFmt)
    /\ convDone' = TRUE
    /\ UNCHANGED <<convIn, convFmt>>
    /\ UNCHANGED <<ctlVars, retryVars, checkVars, pairVars, pollVars>>

\* ------------------------------------- checkRunning / checkRunningAndReady
MaxNodeList == 2    \* longest list of expected nodes

CheckNodes == {"n1", "n2"}

\* pod.Status.Phase and the PodReady condition of a pod
PodStatuses ==
    { [phase |-> "Pending", ready |-> FALSE],
      [phase |-> "Running", ready |-> FALSE],
      [phase |-> "Running", ready |-> TRUE],
      [phase |-> "Succeeded", ready |-> FALSE],
      [phase |-> "Failed", ready |-> FALSE] }

Absent == [phase |-> "", ready |-> FALSE]

errPodCompleted == MkErr("plain", 0, "pod ran to completion")

\* trace.NotFound("no pod found on node %v", ...)
NotFoundErr == [MkErr("NotFound", 0, "") EXCEPT !.wrapped = TRUE]

isPodReadyConditionTrue(st) == st.ready

\* The loop over nodes: every path through its body returns, so only the first
\* node of the list is ever looked at.
checkRunningAndReady(pods, nodes) ==
    IF nodes = <<>> THEN [ready |-> FALSE, err |-> NotFoundErr]
    ELSE LET pod == pods[Head(nodes)]
         IN  IF pod = Absent THEN [ready |-> FALSE, err |-> NotFoundErr]
             ELSE IF pod.phase \in {"Failed", "Succeeded"}
                  THEN [ready |-> FALSE, err |-> errPodCompleted]
             ELSE IF pod.phase = "Running"
                  THEN [ready |-> isPodReadyConditionTrue(pod), err |-> Nil]
             ELSE [ready |-> FALSE, err |-> CompareFailed]

checkRunning(pods, nodes) ==
    LET r == checkRunningAndReady(pods, nodes)
    IN  IF r.ready \/ r.err = errPodCompleted THEN Nil ELSE Wrap(r.err)

\* one call checkRunning(pods, nodes, entry)
CheckRunning ==
    /\ ~crDone
    /\ crOut' = checkRunningAndReady(crPods, crNodes)
    /\ crRunning' = checkRunning(crPods, crNodes)
    /\ crDone' = TRUE
    /\ UNCHANGED <<crPods, crNodes>>
    /\ UNCHANGED <<ctlVars, retryVars, convVars, pairVars, pollVars>>

\* ------------------------------- two controllers in one namespace (job.go)
\* Two controllers, each bound to a job of its own name; the controller is
\* named after its c.Job.Name. Both selectors match the labels of every pod.
Ctl == {"ja", "jb"}

\* pods of the shared namespace: created by the job u1 (first job named ja) or
\* by the job u2 (first job named jb), two of them on the same node
PairPods ==
    { Pod("qa", "n1", TRUE, Ann(TRUE, TRUE, "Job", 1)),
      Pod("qb", "n1", TRUE, Ann(TRUE, TRUE, "Job", 2)),
      Pod("qc", "n2", TRUE, Ann(TRUE, TRUE, "Job", 2)) }

\* errors the cluster may answer with on top of the truthful answer
PairFaults == { MkErr("status", 500, "InternalError") }

\* the locals of a method that is not running
Returned(o, e) ==
    [pc |-> "idle", op |-> o, nested |-> FALSE, cur |-> NoJob, curPods |-> {},
     todo |-> {}, att |-> 0, res |-> e]

\* jobs.Get(c.Job.Name)
PairGetResp(c) ==
    (IF pjobs[c].uid # 0 THEN {[err |-> Nil, job |-> pjobs[c]]}
                         ELSE {[err |-> E404, job |-> NoJob]})
        \cup {[err |-> e, job |-> NoJob] : e \in PairFaults}

PairListed(job) == {p \in ppods : ~job.hasSelector \/ p.lbl}

\* a caller invokes a method of controller c; an Upsert only while a UID is
\* left for the job it creates
PairInvoke(c) ==
    /\ pctl[c].pc = "idle"
    /\ \E o \in Ops :
          /\ o = "Upsert" =>
                pnextUid + Cardinality({d \in Ctl : pctl[d].pc # "idle" /\ pctl[d].op = "Upsert"})
                    <= 2 + MaxUid
          /\ pctl' = [pctl EXCEPT ![c] = [Returned(o, Nil) EXCEPT !.pc = Entry(o, "job.go")]]
    /\ UNCHANGED <<pjobs, ppods, puidOf, pnextUid>>
    /\ UNCHANGED <<ctlVars, retryVars, convVars, checkVars, pollVars>>

\* the running method of c returns e to its caller
PairReturn(c, e) == pctl' = [pctl EXCEPT ![c] = Returned("", e)]

\* Delete returns e: to the caller, or to Upsert (job.go:101-104), which then
\* clears the identity fields of c.Job (job.go:108-115) and goes on to the create
PairDeleteReturn(c, e) ==
    IF pctl[c].nested /\ e = Nil
    THEN pctl' = [pctl EXCEPT ![c] = [Returned(@.op, Nil) EXCEPT !.pc = "U_create"]]
    ELSE PairReturn(c, IF pctl[c].nested THEN ConvertError(e) ELSE e)

PairDeleteGet(c) ==
    /\ pctl[c].pc = "D_get"
    /\ \E r \in PairGetResp(c) :
          IF r.err # Nil
          THEN PairDeleteReturn(c, ConvertError(r.err))
          ELSE pctl' = [pctl EXCEPT ![c].cur = r.job, ![c].pc = "D_list"]
    /\ UNCHANGED <<pjobs, ppods, puidOf, pnextUid>>
    /\ UNCHANGED <<ctlVars, retryVars, convVars, checkVars, pollVars>>

PairDeleteCollect(c) ==
    /\ pctl[c].pc = "D_list"
    /\ \/ \E e \in PairFaults : PairDeleteReturn(c, Wrap(ConvertError(ConvertError(e))))
       \/ \E items \in Orders(PairListed(pctl[c].cur)) :
             pctl' = [pctl EXCEPT ![c].curPods = CollectPods(items, pctl[c].cur),
                                  ![c].pc = "D_delete"]
    /\ UNCHANGED <<pjobs, ppods, puidOf, pnextUid>>
    /\ UNCHANGED <<ctlVars, retryVars, convVars, checkVars, pollVars>>

PairDeleteJob(c) ==
    /\ pctl[c].pc = "D_delete"
    /\ \/ \E e \in PairFaults \cup (IF pjobs[c].uid = 0 THEN {E404} ELSE {}) :
             /\ PairDeleteReturn(c, ConvertError(e))
             /\ pjobs' = pjobs
       \/ /\ pjobs[c].uid # 0
          /\ pjobs' = [pjobs EXCEPT ![c].deleting = TRUE]
          /\ pctl' = [pctl EXCEPT ![c].att = 0, ![c].pc = "D_wait"]
    /\ UNCHANGED <<ppods, puidOf, pnextUid>>
    /\ UNCHANGED <<ctlVars, retryVars, convVars, checkVars, pollVars>>

PairDeleteWait(c) ==
    /\ pctl[c].pc = "D_wait"
    /\ \E r \in PairGetResp(c) :
          LET e == ConvertError(r.err)
              w == waitForObjectDeletion(e, pctl[c].att + 1)
          IN  CASE w = "deleted" ->
                     pctl' = [pctl EXCEPT ![c].todo = CascadeBranch(TRUE, pctl[c].curPods),
                                          ![c].pc = "D_pods"]
                [] w = "abort" -> PairDeleteReturn(c, Wrap(e))
                [] w = "again" -> pctl' = [pctl EXCEPT ![c].att = @ + 1]
                [] OTHER -> PairDeleteReturn(c, Wrap(ErrStillExists))
    /\ UNCHANGED <<pjobs, ppods, puidOf, pnextUid>>
    /\ UNCHANGED <<ctlVars, retryVars, convVars, checkVars, pollVars>>

PairDeletePods(c) ==
    /\ pctl[c].pc = "D_pods"
    /\ \E ent \in pctl[c].todo :
          \/ \E e \in PairFaults \cup (IF ent.pod \in ppods THEN {} ELSE {E404}) :
                /\ PairDeleteReturn(c, Wrap(ConvertError(e)))
                /\ ppods' = ppods
          \/ /\ ent.pod \in ppods
             /\ ppods' = ppods \ {ent.pod}
             /\ pctl' = [pctl EXCEPT ![c].todo = @ \ {ent}]
    /\ UNCHANGED <<pjobs, puidOf, pnextUid>>
    /\ UNCHANGED <<ctlVars, retryVars, convVars, checkVars, pollVars>>

PairDeleteDone(c) ==
    /\ pctl[c].pc = "D_pods"
    /\ pctl[c].todo = {}
    /\ PairDeleteReturn(c, Wrap(Nil))
    /\ UNCHANGED <<pjobs, ppods, puidOf, pnextUid>>
    /\ UNCHANGED <<ctlVars, retryVars, convVars, checkVars, pollVars>>

PairUpsertGet(c) ==
    /\ pctl[c].pc = "U_get"
    /\ \E r \in PairGetResp(c) :
          LET e == ConvertError(r.err)
          IN  IF e # Nil /\ ~IsNotFound(e) THEN PairReturn(c, Wrap(e))
              ELSE IF e # Nil THEN pctl' = [pctl EXCEPT ![c].pc = "U_create"]
              ELSE pctl' = [pctl EXCEPT ![c].nested = TRUE, ![c].pc = "D_get"]
    /\ UNCHANGED <<pjobs, ppods, puidOf, pnextUid>>
    /\ UNCHANGED <<ctlVars, retryVars, convVars, checkVars, pollVars>>

PairUpsertCreate(c) ==
    /\ pctl[c].pc = "U_create"
    /\ \/ /\ pjobs[c].uid = 0
          /\ pjobs' = [pjobs EXCEPT ![c] = [uid |-> pnextUid, deleting |-> FALSE,
                                            hasSelector |-> TRUE]]
          /\ puidOf' = [puidOf EXCEPT ![pnextUid] = c]
          /\ pnextUid' = pnextUid + 1
          /\ PairReturn(c, Wrap(Nil))
       \/ \E e \in PairFaults \cup (IF pjobs[c].uid # 0 THEN {E409} ELSE {}) :
             /\ UNCHANGED <<pjobs, puidOf, pnextUid>>
             /\ IF withExponentialBackoff(pctl[c].att + 1)
                THEN pctl' = [pctl EXCEPT ![c].att = @ + 1]
                ELSE PairReturn(c, Wrap(ConvertError(e)))
    /\ ppods' = ppods
    /\ UNCHANGED <<ctlVars, retryVars, convVars, checkVars, pollVars>>

PairStatus(c) ==
    /\ pctl[c].pc = "S_get"
    /\ \E r \in PairGetResp(c) :
          IF r.err # Nil
          THEN PairReturn(c, ConvertError(r.err))
          ELSE \E f \in JobStates : PairReturn(c, IF Complete(f) THEN Nil ELSE CompareFailed)
    /\ UNCHANGED <<pjobs, ppods, puidOf, pnextUid>>
    /\ UNCHANGED <<ctlVars, retryVars, convVars, checkVars, pollVars>>

\* the cluster completes the foreground deletion of the job named c
PairFinalize(c) ==
    /\ pjobs[c].uid # 0
    /\ pjobs[c].deleting
    /\ pjobs' = [pjobs EXCEPT ![c] = NoJob]
    /\ UNCHANGED <<pctl, ppods, puidOf, pnextUid>>
    /\ UNCHANGED <<ctlVars, retryVars, convVars, checkVars, pollVars>>

\* ------------------------------------------------------- specifications
InitConvVars ==
    /\ convIn = Nil
    /\ convFmt = ""
    /\ convOut = Nil
    /\ convDone = FALSE

InitCheckVars ==
    /\ crPods = [n \in CheckNodes |-> Absent]
    /\ crNodes = <<>>
    /\ crOut = [ready |-> FALSE, err |-> Nil]
    /\ crRunning = Nil
    /\ crDone = FALSE

InitPairVars ==
    /\ pctl = [c \in Ctl |-> Returned("", Nil)]
    /\ pjobs = [c \in Ctl |-> NoJob]
    /\ ppods = {}
    /\ puidOf = [u \in 1..(2 + MaxUid) |-> ""]
    /\ pnextUid = 3

InitPollVars ==
    /\ retryAttempts = 0
    /\ retryPeriod = 0

InitRetryVars ==
    /\ rpc = "idle"
    /\ iter = 0
    /\ err = Nil
    /\ ret = Nil
    /\ cancelled = FALSE
    /\ timerFired = FALSE

InitCtlVars ==
    /\ pc = "idle"
    /\ op = ""
    /\ impl = "job.go"
    /\ nested = FALSE
    /\ cascade = TRUE
    /\ currentJob = NoJob
    /\ upsertJob = NoJob
    /\ currentPods = {}
    /\ todo = {}
    /\ attempt = 0
    /\ result = Nil
    /\ log = <<>>
    /\ createArgs = {}
    /\ killed = {}
    /\ fetched = NoState
    /\ nextUid = 2
    /\ ctxDone = FALSE

\* The cluster holds no job or the job u1, and up to MaxPods pods; the caller's
\* descriptor is any descriptor.
Init ==
    /\ InitCtlVars
    /\ InitRetryVars
    /\ InitConvVars
    /\ InitCheckVars
    /\ InitPairVars
    /\ InitPollVars
    /\ times = 0
    /\ period = 1
    /\ script = [i \in 1..(MaxTimes + 1) |-> Nil]
    /\ \/ /\ cjob = PlainDescriptor
          /\ rjob \in {NoJob} \cup {[uid |-> 1, deleting |-> FALSE, hasSelector |-> h] : h \in BOOLEAN}
          /\ rpods \in {S \in SUBSET PodUniverse : Cardinality(S) <= MaxPods}
       \/ /\ cjob \in Descriptors
          /\ rjob \in {NoJob, [uid |-> 1, deleting |-> FALSE, hasSelector |-> TRUE]}
          /\ rpods = {p \in PodUniverse : p.name = "pa"}
    /\ given = cjob

Next ==
    \/ Invoke
    \/ DeleteGet \/ DeleteCollect \/ DeleteJob \/ DeleteWait \/ DeletePods \/ DeleteDone
    \/ UpsertGet \/ UpsertStrip \/ UpsertCreate
    \/ Status
    \/ Delete0Get \/ Delete0Collect \/ Delete0Job \/ Delete0Pods \/ Delete0Done
    \/ Upsert0Get \/ Upsert0Collect \/ Upsert0Delete \/ Upsert0Create
    \/ Upsert0Pods \/ Upsert0Done
    \/ Finalize
    \/ CancelCtx

Spec == Init /\ [][Next]_vars

\* retry(ctx, times, period, fn) alone: any times, a zero or positive period
InitRetry ==
    /\ InitCtlVars
    /\ InitRetryVars
    /\ InitConvVars
    /\ InitCheckVars
    /\ InitPairVars
    /\ InitPollVars
    /\ cjob = PlainDescriptor
    /\ given = PlainDescriptor
    /\ rjob = NoJob
    /\ rpods = {}
    /\ times \in -1..MaxTimes
    /\ period \in {0, 1}
    /\ script \in [1..(MaxTimes + 1) -> FnResults]

NextRetry == RetryEnter \/ RetryFn \/ RetrySelect \/ Tick \/ Cancel

\* fn returns and the timer fires: the steps of retry itself are taken
SpecRetry == InitRetry /\ [][NextRetry]_vars /\ WF_vars(RetryEnter \/ RetryFn \/ RetrySelect \/ Tick)

\* ConvertErrorWithContext(err, format) alone, on any error value
InitConvert ==
    /\ InitCtlVars
    /\ InitRetryVars
    /\ InitCheckVars
    /\ InitPairVars
    /\ InitPollVars
    /\ cjob = PlainDescriptor
    /\ given = PlainDescriptor
    /\ rjob = NoJob
    /\ rpods = {}
    /\ times = 0
    /\ period = 1
    /\ script = [i \in 1..(MaxTimes + 1) |-> Nil]
    /\ convIn \in ErrorValues
    /\ convFmt \in Formats
    /\ convOut = Nil
    /\ convDone = FALSE

NextConvert == Convert

SpecConvert == InitConvert /\ [][NextConvert]_vars

\* checkRunning(pods, nodes) alone, on any pod mapping and any node list
NodeLists == UNION {[1..n -> CheckNodes] : n \in 0..MaxNodeList}

InitCheck ==
    /\ InitCtlVars
    /\ InitRetryVars
    /\ InitConvVars
    /\ InitPairVars
    /\ InitPollVars
    /\ cjob = PlainDescriptor
    /\ given = PlainDescriptor
    /\ rjob = NoJob
    /\ rpods = {}
    /\ times = 0
    /\ period = 1
    /\ script = [i \in 1..(MaxTimes + 1) |-> Nil]
    /\ crPods \in [CheckNodes -> PodStatuses \cup {Absent}]
    /\ crNodes \in NodeLists
    /\ crOut = [ready |-> FALSE, err |-> Nil]
    /\ crRunning = Nil
    /\ crDone = FALSE

NextCheck == CheckRunning

SpecCheck == InitCheck /\ [][NextCheck]_vars


\* two controllers: each name holds no job or its first job (u1 under ja, u2
\* under jb); up to MaxPods pods those first jobs created are in the namespace
InitPair ==
    /\ InitCtlVars
    /\ InitRetryVars
    /\ InitConvVars
    /\ InitCheckVars
    /\ InitPollVars
    /\ cjob = PlainDescriptor
    /\ given = PlainDescriptor
    /\ rjob = NoJob
    /\ rpods = {}
    /\ times = 0
    /\ period = 1
    /\ script = [i \in 1..(MaxTimes + 1) |-> Nil]
    /\ pctl = [c \in Ctl |-> Returned("", Nil)]
    /\ pjobs \in { [ja |-> a, jb |-> b] :
                      a \in {NoJob, [uid |-> 1, deleting |-> FALSE, hasSelector |-> TRUE]},
                      b \in {NoJob, [uid |-> 2, deleting |-> FALSE, hasSelector |-> TRUE]} }
    /\ ppods \in {S \in SUBSET PairPods : Cardinality(S) <= MaxPods}
    /\ puidOf = [u \in 1..(2 + MaxUid) |-> IF u = 1 THEN "ja" ELSE IF u = 2 THEN "jb" ELSE ""]
    /\ pnextUid = 3

NextPair ==
    \E c \in Ctl :
        \/ PairInvoke(c)
        \/ PairDeleteGet(c) \/ PairDeleteCollect(c) \/ PairDeleteJob(c)
        \/ PairDeleteWait(c) \/ PairDeletePods(c) \/ PairDeleteDone(c)
        \/ PairUpsertGet(c) \/ PairUpsertCreate(c)
        \/ PairStatus(c)
        \/ PairFinalize(c)

SpecPair == InitPair /\ [][NextPair]_vars

\* PollStatus(ctx, retryAttempts, retryPeriod, reporter) alone: any
\* retryAttempts, a zero or positive retryPeriod, reporter.Status answering by script
InitPoll ==
    /\ InitCtlVars
    /\ InitConvVars
    /\ InitCheckVars
    /\ InitPairVars
    /\ cjob = PlainDescriptor
    /\ given = PlainDescriptor
    /\ rjob = NoJob
    /\ rpods = {}
    /\ rpc = "poll"
    /\ times = 0
    /\ period = 0
    /\ iter = 0
    /\ err = Nil
    /\ ret = Nil
    /\ cancelled = FALSE
    /\ timerFired = FALSE
    /\ script \in [1..(MaxTimes + 1) -> FnResults]
    /\ retryAttempts \in -1..MaxTimes
    /\ retryPeriod \in {0, 1}

NextPoll == PollStatus \/ RetryEnter \/ RetryFn \/ RetrySelect \/ Tick \/ Cancel

SpecPoll == InitPoll /\ [][NextPoll]_vars

\* ------------------------------------------------------------ properties
\* positions of the calls named c in the invocation's record
Idx(c) == {i \in 1..Len(log) : log[i].call = c}

PodByName(n) == CHOOSE p \in PodUniverse : p.name = n

IdentityCleared(o) == o.uid = 0 /\ o.selfLink = "" /\ o.resourceVersion = ""

\* the job fetched at the start of the invocation
FetchedJob == IF op = "Upsert" /\ impl = "job.go" THEN upsertJob ELSE currentJob

OwnedBy(p, job) ==
    /\ p.ann.present
    /\ p.ann.wellformed
    /\ p.ann.kind = "Job"
    /\ job.uid # 0
    /\ p.ann.uid = job.uid

UpsertOnAbsent == op = "Upsert" /\ Len(log) >= 1 /\ log[1].res = "404"

UpsertOnExisting == op = "Upsert" /\ Len(log) >= 1 /\ log[1].res = "ok"

\* C1: an Upsert whose initial Get answered NotFound issues no job delete and no
\* pod delete, and every object it passes to Create has UID, selfLink and
\* resourceVersion empty, whatever the descriptor carried before the call.
C1_UpsertAbsentCreatesClean ==
    UpsertOnAbsent =>
        /\ Idx("jobDelete") = {}
        /\ Idx("podDelete") = {}
        /\ killed = {}
        /\ \A o \in createArgs : IdentityCleared(o)

C1_Witness ==
    /\ UpsertOnAbsent
    /\ pc = "idle"
    /\ result = Nil
    /\ Idx("create") # {}
    /\ createArgs # {}
    /\ given.uid # 0
    /\ given.selfLink # ""
    /\ given.resourceVersion # ""

\* C2: an Upsert whose initial Get returned a job deletes the old job, then
\* creates the new one, then deletes the pods collected from the old job: no pod
\* delete is issued before a Create has returned success, and the pods deleted
\* are owned by the old job's UID.
C2_ReplaceOrder ==
    UpsertOnExisting =>
        /\ \A i \in Idx("create") :
              \E j \in Idx("jobDelete") : j < i /\ log[j].res = "ok"
        /\ \A i \in Idx("podDelete") :
              \E j \in Idx("create") : j < i /\ log[j].res = "ok"
        /\ \A i \in Idx("podDelete") : OwnedBy(PodByName(log[i].arg), FetchedJob)

\* C3: a Delete whose initial Get answers with a 404 status error returns a
\* NotFound error and issues no pod list, no job delete and no pod delete; the
\* cluster is left as it was.
C3_DeleteAbsentTouchesNothing ==
    /\ [](op = "Delete" /\ Len(log) >= 1 /\ log[1].res = "404" =>
             /\ pc = "idle"
             /\ Len(log) = 1
             /\ result.kind = "NotFound"
             /\ killed = {})
    /\ [][(pc \in {"D_get", "D0_get"} /\ Len(log') = Len(log) + 1
              /\ log'[Len(log')].res = "404") =>
             (rjob' = rjob /\ rpods' = rpods /\ pc' = "idle"
                 /\ result'.kind = "NotFound")]_vars

C3_Witness ==
    /\ op = "Delete"
    /\ pc = "idle"
    /\ Len(log) = 1
    /\ log[1].res = "404"
    /\ result.kind = "NotFound"
    /\ rpods # {}

\* C4: in every Delete a pod delete is issued only after the job delete
\* succeeded and a later Get of the job answered NotFound; a Delete whose wait
\* ended any other way returns an error and issues no pod delete.
C4_PodDeleteAfterWait ==
    op = "Delete" =>
        /\ \A i \in Idx("podDelete") :
              \E j \in Idx("jobDelete"), k \in Idx("get") :
                 j < k /\ k < i /\ log[j].res = "ok" /\ log[k].res = "404"
        /\ (pc = "idle"
               /\ (\E j \in Idx("jobDelete"), k \in Idx("get") : j < k /\ log[j].res = "ok")
               /\ ~(\E j \in Idx("jobDelete"), k \in Idx("get") :
                       j < k /\ log[j].res = "ok" /\ log[k].res = "404"))
              => (result # Nil /\ Idx("podDelete") = {})

\* C5: every pod delete the controller issues names a pod whose created-by
\* annotation parses to a reference of kind Job with the UID of the job fetched
\* at the start of the invocation; label-alike pods of another owner, or
\* without annotation, are never deleted.
C5_OnlyOwnedPodsDeleted ==
    /\ \A i \in Idx("podDelete") : OwnedBy(PodByName(log[i].arg), FetchedJob)
    /\ \A p \in killed : OwnedBy(p, FetchedJob)

C5_Witness ==
    /\ pc = "idle"
    /\ result = Nil
    /\ killed # {}
    /\ \E p \in rpods : p.lbl /\ ~OwnedBy(p, FetchedJob)

\* C6: Status returns nil iff (completions absent, succeeded > 0, active = 0)
\* or (completions present, succeeded >= completions); otherwise a
\* CompareFailed error. With completions present, active plays no part.
C6_StatusRule ==
    (op = "Status" /\ pc = "idle" /\ Len(log) = 1 /\ log[1].res = "ok") =>
        /\ result = Nil <=>
              \/ ~fetched.hasCompletions /\ fetched.succeeded > 0 /\ fetched.active = 0
              \/ fetched.hasCompletions /\ fetched.succeeded >= fetched.completions
        /\ result # Nil => result.kind = "CompareFailed"

C6_Witness ==
    /\ op = "Status"
    /\ pc = "idle"
    /\ Len(log) = 1
    /\ log[1].res = "ok"
    /\ fetched.hasCompletions
    /\ fetched.completions > 0
    /\ fetched.succeeded >= fetched.completions
    /\ fetched.active > 0
    /\ result = Nil

\* the first call on which fn succeeds, 0 when it fails on each of its first n calls
RECURSIVE FirstSuccess(_, _)
FirstSuccess(k, n) ==
    IF k > n THEN 0
    ELSE IF script[k] = Nil THEN k
    ELSE FirstSuccess(k + 1, n)

\* C7: with times >= 1 and a context never cancelled, if fn first succeeds on
\* its k-th call, k <= times, retry returns nil after exactly k calls of fn, and
\* fn is never called after a success.
C7_RetryStopsAtFirstSuccess ==
    (times >= 1 /\ ~cancelled /\ FirstSuccess(1, times) > 0) =>
        /\ iter <= FirstSuccess(1, times)
        /\ rpc = "done" => (ret = Nil /\ iter = FirstSuccess(1, times))

C7_Witness ==
    /\ times = MaxTimes
    /\ ~cancelled
    /\ FirstSuccess(1, times) = times
    /\ rpc = "done"
    /\ ret = Nil
    /\ iter = times

\* C8: with times >= 1, a context never cancelled and an fn that fails on every
\* call, fn is called exactly times times, retry returns, and it returns the
\* error of the last call unchanged.
C8_RetryExhausts ==
    /\ []((times >= 1 /\ ~cancelled /\ FirstSuccess(1, times) = 0) =>
             /\ iter <= times
             /\ rpc = "done" => (iter = times /\ ret = script[times]))
    /\ (times >= 1 /\ FirstSuccess(1, times) = 0 /\ []~cancelled) => <>(rpc = "done")

C8_Witness ==
    /\ times = MaxTimes
    /\ ~cancelled
    /\ FirstSuccess(1, times) = 0
    /\ \A k \in 1..(times - 1) : script[k] # script[times]
    /\ rpc = "done"
    /\ iter = times
    /\ ret = script[times]

\* C9: when the context is cancelled while retry waits between attempts and the
\* period has not elapsed (the cancellation may date from the call of fn), retry
\* returns the error of the latest call of fn and calls fn no more.
C9_CancelStopsRetry ==
    /\ [][(rpc = "wait" /\ cancelled /\ ~timerFired) =>
             (rpc' = "done" /\ ret' = err /\ err = script[iter] /\ iter' = iter)]_vars
    /\ [][rpc = "done" => (rpc' = "done" /\ iter' = iter /\ ret' = ret)]_vars

C9_Witness ==
    /\ rpc = "done"
    /\ cancelled
    /\ ~timerFired
    /\ iter >= 2
    /\ iter < times
    /\ ret = script[iter]
    /\ ret # Nil
    /\ script[iter + 1] = Nil

\* C10: ConvertError / ConvertErrorWithContext: nil gives nil; an error that is
\* no status error comes back as the same value; status 409 with reason
\* AlreadyExists gives AlreadyExists, 404 NotFound, 403 AccessDenied; any other
\* status error (409 with another reason too) comes back as the same value.
C10_ConvertMapping ==
    convDone =>
        /\ convIn = Nil => convOut = Nil
        /\ (convIn # Nil /\ convIn.kind # "status") => convOut = convIn
        /\ convIn.kind = "status" =>
              IF convIn.code = 409 /\ convIn.reason = "AlreadyExists"
              THEN convOut.kind = "AlreadyExists"
              ELSE IF convIn.code = 404 THEN convOut.kind = "NotFound"
              ELSE IF convIn.code = 403 THEN convOut.kind = "AccessDenied"
              ELSE convOut = convIn

C10_Witness ==
    /\ convDone
    /\ convIn.kind = "status"
    /\ convIn.code = 409
    /\ convIn.reason = "Conflict"
    /\ convOut = convIn

\* pods of S sit on pairwise distinct nodes
DistinctNodes(S) == \A p, q \in S : p.node = q.node => p = q

\* the step is a pod list that the cluster answered without error
ListAnswered ==
    /\ pc \in {"D_list", "D0_list", "U0_list"}
    /\ Len(log') = Len(log) + 1
    /\ log'[Len(log')].call = "list"
    /\ log'[Len(log')].res = "ok"

\* C11: when the List call returns pods on pairwise distinct nodes, CollectPods
\* gives, without error, the mapping of exactly the returned pods that carry the
\* created-by annotation, whose annotation deserializes and whose reference
\* satisfies the predicate, each under its node name; a pod without or with a
\* malformed annotation is skipped and takes no other pod with it.
C11_CollectExact ==
    [][(ListAnswered /\ DistinctNodes(Listed(currentJob))) =>
          /\ pc' \notin {"idle", pc}
          /\ result' = result
          /\ currentPods' =
                {[node |-> p.node, pod |-> p] :
                    p \in {q \in Listed(currentJob) :
                              /\ q.ann.present
                              /\ q.ann.wellformed
                              /\ q.ann.kind = "Job"
                              /\ q.ann.uid = currentJob.uid}}]_vars

C11_Witness ==
    /\ pc \in {"D_delete", "D0_delete", "U0_delete"}
    /\ log[Len(log)].call = "list"
    /\ log[Len(log)].res = "ok"
    /\ \E p \in rpods : p.lbl /\ p.ann.present /\ ~p.ann.wellformed
    /\ \E p \in rpods : OwnedBy(p, currentJob) /\ [node |-> p.node, pod |-> p] \in currentPods
    /\ Cardinality(rpods) = 2
    /\ DistinctNodes(rpods)

\* the pods the invocation's list call returned: pods leave the cluster during
\* an invocation only through its own pod deletes
ListedAtCollection == {p \in rpods \cup killed : ~FetchedJob.hasSelector \/ p.lbl}

\* C12: after a successful Delete, and after a successful Upsert that replaced
\* an existing job, a pod delete has been issued for every pod the list call
\* returned that was owned by the old job, wherever those pods are placed:
\* several on one node, or with an empty node name.
C12_AllOwnedPodsDeleted ==
    (pc = "idle" /\ result = Nil /\ (op = "Delete" \/ UpsertOnExisting)) =>
        \A p \in ListedAtCollection :
            OwnedBy(p, FetchedJob) => \E i \in Idx("podDelete") : log[i].arg = p.name

\* C13: checkRunningAndReady returns a NotFound error whenever some node of the
\* expected node list has no pod in the pod mapping, at whatever position of the
\* list, and whatever the phase and readiness of the pods on the other nodes.
C13_MissingNodeIsNotFound ==
    (crDone /\ \E i \in 1..Len(crNodes) : crPods[crNodes[i]] = Absent) =>
        /\ ~crOut.ready
        /\ crOut.err.kind = "NotFound"

\* C14: once the ctx passed to Delete or Upsert is cancelled while the deletion
\* wait or the create backoff is between two attempts, the operation issues no
\* further Get or Create call and returns the most recent error; when the
\* attempts are exhausted the last error is returned.
C14_CancelStopsWaitAndBackoff ==
    [][(ctxDone /\ pc \in {"D_wait", "U_create"} /\ attempt >= 1) =>
          /\ log' = log
          /\ createArgs' = createArgs]_vars

\* an error as ConvertError leaves it: no status error with a code it maps
Translated(e) ==
    /\ e # Nil
    /\ ~(e.kind = "status" /\ e.code \in {403, 404})
    /\ ~(e.kind = "status" /\ e.code = 409 /\ e.reason = "AlreadyExists")

\* C15: an Upsert on an existing job issues the job delete at most once; when
\* the delete answers an error, Upsert returns at once with that error
\* translated, and no Create and no pod delete follows.
C15_DeleteFailsFast ==
    op = "Upsert" =>
        /\ Cardinality(Idx("jobDelete")) <= 1
        /\ \A j \in Idx("jobDelete") :
              log[j].res # "ok" =>
                  /\ j = Len(log)
                  /\ pc = "idle"
                  /\ Translated(result)
                  /\ log[j].res = "404" => result.kind = "NotFound"
                  /\ Idx("create") = {}
                  /\ Idx("podDelete") = {}
                  /\ createArgs = {}
                  /\ killed = {}

C15_Witness ==
    /\ UpsertOnExisting
    /\ impl = "job.go"
    /\ pc = "idle"
    /\ log[Len(log)].call = "jobDelete"
    /\ log[Len(log)].res = "error"
    /\ result.kind = "AccessDenied"
    /\ rjob.uid # 0
    /\ rpods # {}

\* the calls of a Delete come in the order get, list, job delete, polls, pod deletes
DeleteCallOrder ==
    /\ Len(log) >= 1 => log[1].call = "get"
    /\ Len(log) >= 2 => log[2].call = "list"
    /\ Len(log) >= 3 => log[3].call = "jobDelete"
    /\ \A i \in 4..Len(log) : log[i].call \in {"get", "podDelete"}
    /\ \A i, j \in 4..Len(log) : (i < j /\ log[i].call = "podDelete") => log[j].call = "podDelete"

\* C16: Delete(ctx, true) and Delete(ctx, false) issue the same remote calls and
\* return the same result: with either flag the calls come in the same order,
\* the pod deletion receives every collected pod, and a Delete that returns nil
\* has deleted all of them.
C16_CascadeNoInfluence ==
    /\ [](op = "Delete" =>
             /\ DeleteCallOrder
             /\ pc \in {"D_pods", "D0_pods"} =>
                   currentPods = todo \cup {ent \in currentPods : ent.pod \in killed}
             /\ (pc = "idle" /\ result = Nil) =>
                   /\ Idx("podDelete") = 4 + Cardinality(Idx("get")) - 1 .. Len(log)
                   /\ \A ent \in currentPods :
                         \E i \in Idx("podDelete") : log[i].arg = ent.pod.name /\ log[i].res = "ok")
    /\ [][(op = "Delete" /\ pc' \in {"D_pods", "D0_pods"} /\ pc \notin {"D_pods", "D0_pods"}) =>
             \A c \in BOOLEAN : todo' = CascadeBranch(c, currentPods)]_vars

C16_Witness ==
    /\ op = "Delete"
    /\ ~cascade
    /\ pc = "idle"
    /\ result = Nil
    /\ killed # {}
    /\ rjob.uid = 0

\* the job name whose job created the pod, "" when the pod has no job as creator
PodOwner(p) ==
    IF p.ann.present /\ p.ann.wellformed /\ p.ann.kind = "Job" /\ p.ann.uid \in DOMAIN puidOf
    THEN puidOf[p.ann.uid]
    ELSE ""

PodsOf(S, c) == {p \in S : PodOwner(p) = c}

\* C17: two controllers bound to jobs of different names in one namespace, both
\* selectors matching every pod, their Upsert / Delete / Status interleaved in
\* any way. The pods a controller collects, and so every pod it issues a delete
\* for, were created by a job of its own name; the collection is one it could
\* have made with the other job's pods absent; a step of one controller leaves
\* the other's job and the other's pods as they are.
C17_Independent ==
    /\ [](\A c \in Ctl :
             /\ pctl[c].cur.uid # 0 => puidOf[pctl[c].cur.uid] = c
             /\ \A ent \in pctl[c].curPods \cup pctl[c].todo : PodOwner(ent.pod) = c)
    /\ [][\A c \in Ctl :
             /\ pctl'[c] = pctl[c] =>
                   /\ \/ pjobs'[c] = pjobs[c]
                      \/ pctl' = pctl /\ pjobs[c].deleting /\ pjobs'[c] = NoJob
                   /\ PodsOf(ppods', c) = PodsOf(ppods, c)
             /\ (pctl[c].pc = "D_list" /\ pctl'[c].pc = "D_delete") =>
                   pctl'[c].curPods \in
                       {CollectPods(o, pctl[c].cur) :
                           o \in Orders(PodsOf(PairListed(pctl[c].cur), c))}]_vars

C17_Witness ==
    /\ pctl["ja"].pc = "D_pods"
    /\ pctl["ja"].todo = {}
    /\ \E ent \in pctl["ja"].curPods : ent.node = "n1" /\ ent.pod \notin ppods
    /\ \E p \in ppods : p.node = "n1" /\ PodOwner(p) = "jb"
    /\ pctl["jb"].pc = "D_wait"
    /\ pctl["jb"].op = "Upsert"
    /\ pctl["jb"].curPods # {}

\* C18: retry with times <= 0 returns nil without calling fn and without
\* waiting, whatever fn would return and whether or not ctx is cancelled.
C18_RetryNoAttempts ==
    /\ [](times <= 0 =>
             /\ iter = 0
             /\ err = Nil
             /\ rpc \in {"idle", "done"}
             /\ ~timerFired
             /\ rpc = "done" => ret = Nil)
    /\ (times <= 0) ~> (rpc = "done" /\ ret = Nil)

C18_Witness ==
    /\ times = 0
    /\ rpc = "done"
    /\ ret = Nil
    /\ iter = 0
    /\ cancelled
    /\ script[1] # Nil

\* C19: whatever job is handed to Upsert, with or without a selector, with or
\* without template labels, the object passed to Create carries the
\* controller-uid label neither in the selector's match labels nor in the pod
\* template's labels.
C19_CreateWithoutAutoLabels ==
    \A o \in createArgs : o.selector # "auto" /\ ~o.tplAuto

\* C20: for every retryAttempts and retryPeriod, PollStatus returns nil only if
\* reporter.Status was invoked at least once and its last invocation returned
\* nil: success is never reported without the status observed as complete.
C20_PollStatusObserved ==
    (rpc = "done" /\ ret = Nil) => (iter >= 1 /\ script[iter] = Nil)

====
